---- MODULE Spec2Model ----
(***************************************************************************)
(* Job lifecycle of the financial document analyzer: the POST /analyze     *)
(* handler (main.py), the RQ worker function process_job (worker.py), the  *)
(* GET /status/{job_id} handler (main.py) and the analysis table (db.py).  *)
(*                                                                         *)
(* Python strings are modelled as sequences of tokens, so that             *)
(* str.strip() and the f-string f"error: {e}" are computed, not assumed.   *)
(* A nullable column holds NULL (the empty tuple) or Some(s) = <<s>>.      *)
(***************************************************************************)
EXTENDS Integers, Sequences, FiniteSets, TLC

\* ------------------------------------------------------------------ bounds
MaxJobs == 2        \* number of POST /analyze requests
MaxWorkers == 2     \* number of concurrently running process_job executions
MaxRedeliver == 2   \* number of times the queue re-presents a delivered item

Requests == 1..MaxJobs
Workers == 1..MaxWorkers

\* ----------------------------------------------------------------- strings
NULL == <<>>
Some(s) == <<s>>

\* Form(default=...) of the query parameter, and the literal of line 87.
DEFAULT_QUERY == <<"Analyze this financial document for investment insights">>

\* The query strings a client may post.
Queries == { <<>>, <<" ", "q", " ">> }

\* What financial_crew.kickoff may return, after str(): any text, also "".
Texts == { <<"summary">>, <<>> }

\* str(e) of what kickoff may raise.
Errors == { <<"boom">> }

RECURSIVE LStrip(_)
LStrip(s) == IF s # <<>> /\ Head(s) = " " THEN LStrip(Tail(s)) ELSE s

RECURSIVE RStrip(_)
RStrip(s) ==
    IF s # <<>> /\ s[Len(s)] = " " THEN RStrip(SubSeq(s, 1, Len(s) - 1)) ELSE s

\* str.strip()
Strip(s) == RStrip(LStrip(s))

\* "Validate query": an empty query is replaced by the default one.
ValidateQuery(q) == IF q = <<>> THEN DEFAULT_QUERY ELSE q

\* f"data/financial_document_{file_id}.pdf"
FilePath(file_id) == <<"data/financial_document_", file_id, ".pdf">>

\* f"error: {e}"
ErrorResult(e) == <<"error: ">> \o e

\* f"Error processing document: {str(e)}"
ProcessingDetail(e) == <<"Error processing document: ">> \o e

\* f"Error queuing financial document: {str(e)}"
QueuingDetail(e) == <<"Error queuing financial document: ">> \o e

\* str() of an HTTPException: "<status_code>: <detail>"
HTTPExceptionStr(detail) == <<"500: ">> \o detail

\* ------------------------------------------------------------------- state
VARIABLES
    REDIS_AVAILABLE,  \* main.py: set once while the module is imported
    db,               \* the committed rows of table analysis, keyed by id
    issued,           \* how many ids uuid4 has produced for Analysis.id
    now,              \* logical datetime.utcnow(): advances with every write
    queue,            \* the RQ queue 'financial': a FIFO of process_job calls
    delivered,        \* the calls a worker has already taken from the queue
    redeliveries,     \* how many times the queue has re-presented a call
    req,              \* each POST /analyze request: its position and locals
    wrk,              \* each process_job execution: its position and locals
    executions,       \* job id -> how many times run_crew was invoked for it
    enqueued,         \* the job ids the handler has passed to queue.enqueue
    writes,           \* job id -> how many UPDATEs have been committed on it
    raised,           \* job id -> str(e) of what run_crew last raised for it
    outcome,          \* job id -> how the latest run_crew call for it ended
    polled            \* the latest GET /status/{job_id}: the id and the answer

vars == << REDIS_AVAILABLE, db, issued, now, queue, delivered, redeliveries,
           req, wrk, executions, enqueued, writes, raised, outcome, polled >>

NoJob == -1     \* job_id not assigned yet
StaleId == 0    \* an id no row has: left in the queue by an earlier database

JobIds == StaleId..MaxJobs

Terminal == { "completed", "failed" }

\* class Analysis: the columns and their defaults. Column id is the key of db.
Analysis(query, file_path, status) ==
    [ query |-> query, file_path |-> file_path, result |-> NULL,
      status |-> status, created_at |-> now + 1, updated_at |-> now + 1 ]

\* Insert without its session.commit(): the row never reaches the table.
InsertUncommitted(id, row) == db' = db

\* session.add(job); session.commit(): INSERT of the row under a fresh id.
Insert(id, row) ==
    db' = [ i \in DOMAIN db \cup {id} |-> IF i = id THEN row ELSE db[i] ]

\* Flush with the assignment of result left out: only status is written.
FlushStatusOnly(id, loaded, result, status) ==
    /\ db' = [ db EXCEPT ![id] = [ @ EXCEPT !.status = status,
                                            !.updated_at = now + 1 ] ]
    /\ now' = now + 1
    /\ writes' = [ writes EXCEPT ![id] = @ + 1 ]

\* Flush as an UPDATE without its WHERE id = ...: every row is rewritten.
FlushEveryRow(id, loaded, result, status) ==
    /\ db' = [ i \in DOMAIN db |->
                 [ db[i] EXCEPT !.result = Some(result), !.status = status,
                                !.updated_at = now + 1 ] ]
    /\ now' = now + 1
    /\ writes' = [ writes EXCEPT ![id] = @ + 1 ]

\* Flush without its session.commit(): the assignments are lost on close.
FlushUncommitted(id, loaded, result, status) == UNCHANGED << db, now, writes >>

\* record.result = ...; record.status = ...; session.commit() on a row that
\* session.get loaded as `loaded`. The unit of work puts in the UPDATE the
\* columns whose new value differs from the loaded one, and emits no UPDATE
\* (so onupdate does not fire) when none differs.
Flush(id, loaded, result, status) ==
    LET setResult == Some(result) # loaded.result
        setStatus == status # loaded.status
    IN  IF setResult \/ setStatus
        THEN /\ db' = [ db EXCEPT ![id] =
                    [ @ EXCEPT !.result = IF setResult THEN Some(result) ELSE @,
                               !.status = IF setStatus THEN status ELSE @,
                               !.updated_at = now + 1 ] ]
             /\ now' = now + 1
             /\ writes' = [ writes EXCEPT ![id] = @ + 1 ]
        ELSE UNCHANGED << db, now, writes >>

\* run_crew(query, file_path) is entered for the job.
Invoke(id) == executions' = [ executions EXCEPT ![id] = @ + 1 ]

\* The arguments of queue.enqueue(process_job, job_id, query.strip(),
\* file_path).
Call(job_id, query, file_path) ==
    [ job_id |-> job_id, query |-> query, file_path |-> file_path ]

\* "'NoneType' object has no attribute 'result'": job.result on a missing row.
AttributeError == <<"'NoneType' object has no attribute 'result'">>

\* The bodies of the HTTP answers.
NoResponse ==
    [ code |-> 0, status |-> "", job_id |-> NoJob, query |-> <<>>,
      result |-> NULL, detail |-> <<>> ]

QueuedResponse(job_id, query) ==
    [ code |-> 200, status |-> "queued", job_id |-> job_id, query |-> query,
      result |-> NULL, detail |-> <<>> ]

CompletedResponse(job_id, query, result) ==
    [ code |-> 200, status |-> "completed", job_id |-> job_id, query |-> query,
      result |-> Some(result), detail |-> <<>> ]

\* raise HTTPException(status_code=500, detail=...)
HTTPException(detail) ==
    [ code |-> 500, status |-> "", job_id |-> NoJob, query |-> <<>>,
      result |-> NULL, detail |-> detail ]

\* The locals of a process_job execution that is not running.
NoCall == [ job_id |-> NoJob, query |-> <<>>, file_path |-> <<>> ]

NoRecord ==
    [ query |-> <<>>, file_path |-> <<>>, result |-> NULL, status |-> "",
      created_at |-> 0, updated_at |-> 0 ]

NotPolled == [ code |-> 0, job_id |-> NoJob, status |-> "", result |-> NULL ]

\* run_crew has not ended for the job; it returned `text`; it raised `e`.
NoOutcome == [ kind |-> "none", text |-> <<>> ]
Returned(text) == [ kind |-> "returned", text |-> text ]
Raised(e) == [ kind |-> "raised", text |-> e ]

Init ==
    /\ REDIS_AVAILABLE \in BOOLEAN
    /\ db = << >>
    /\ issued = 0
    /\ now = 0
    /\ queue \in IF REDIS_AVAILABLE
                 THEN { <<>>, << Call(StaleId, <<"q">>, FilePath("0")) >> }
                 ELSE { <<>> }
    /\ delivered = {}
    /\ redeliveries = 0
    /\ req = [ r \in Requests |->
                 [ pc |-> "idle", query |-> <<>>, file_path |-> <<>>,
                   job_id |-> NoJob, response |-> NoResponse ] ]
    /\ wrk = [ w \in Workers |->
                 [ pc |-> "idle", call |-> NoCall, record |-> NoRecord ] ]
    /\ executions = [ i \in JobIds |-> 0 ]
    /\ enqueued = {}
    /\ writes = [ i \in JobIds |-> 0 ]
    /\ raised = [ i \in JobIds |-> NULL ]
    /\ outcome = [ i \in JobIds |-> NoOutcome ]
    /\ polled = [ asked |-> NoJob, answer |-> NotPolled ]

\* ------------------------------------------- POST /analyze (main.py 66-136)

\* Requests are numbered in the order in which the server receives them.
Arrives(r) ==
    /\ req[r].pc = "idle"
    /\ \A p \in Requests : p < r => req[p].pc # "idle"

\* Lines 73-83 raise (the upload cannot be written): the outer except answers
\* 500 and no row has been created.
AnalyzeIntakeFails(r) ==
    /\ Arrives(r)
    /\ \E e \in Errors :
         req' = [ req EXCEPT ![r].pc = "done",
                             ![r].response = HTTPException(QueuingDetail(e)) ]
    /\ UNCHANGED << REDIS_AVAILABLE, db, issued, now, queue, delivered,
                    redeliveries, wrk, executions, enqueued, writes,
                    polled, raised, outcome >>

\* Lines 73-96: the upload is saved, the query validated, and the row is
\* committed with status pending under a fresh id.
AnalyzeCreate(r) ==
    /\ Arrives(r)
    /\ issued < MaxJobs
    /\ \E posted \in Queries :
         LET query == ValidateQuery(posted)
             file_path == FilePath(ToString(r))
             job_id == issued + 1
         IN  /\ Insert(job_id, Analysis(Strip(query), file_path, "pending"))
             /\ req' = [ req EXCEPT ![r].pc = "created",
                                    ![r].query = query,
                                    ![r].file_path = file_path,
                                    ![r].job_id = job_id ]
    /\ issued' = issued + 1
    /\ now' = now + 1
    /\ UNCHANGED << REDIS_AVAILABLE, queue, delivered, redeliveries, wrk,
                    executions, enqueued, writes, polled, raised, outcome >>

\* A handler that enqueues the call and goes on to run the job itself.
AnalyzeEnqueueAndRun(r) ==
    /\ req[r].pc = "created"
    /\ REDIS_AVAILABLE
    /\ queue' = Append(queue, Call(req[r].job_id, Strip(req[r].query),
                                   req[r].file_path))
    /\ enqueued' = enqueued \cup { req[r].job_id }
    /\ Invoke(req[r].job_id)
    /\ req' = [ req EXCEPT ![r].pc = "running" ]
    /\ UNCHANGED << REDIS_AVAILABLE, db, issued, now, delivered, redeliveries,
                    wrk, writes, polled, raised, outcome >>

\* A handler that enqueues the query as validated, blanks included.
AnalyzeEnqueueUnstripped(r) ==
    /\ req[r].pc = "created"
    /\ REDIS_AVAILABLE
    /\ queue' = Append(queue, Call(req[r].job_id, req[r].query,
                                   req[r].file_path))
    /\ enqueued' = enqueued \cup { req[r].job_id }
    /\ req' = [ req EXCEPT ![r].pc = "done",
                           ![r].response = QueuedResponse(req[r].job_id,
                                                          req[r].query) ]
    /\ UNCHANGED << REDIS_AVAILABLE, db, issued, now, delivered, redeliveries,
                    wrk, executions, writes, polled, raised, outcome >>

\* Lines 99-108: the call is enqueued and the handler answers "queued".
AnalyzeEnqueue(r) ==
    /\ req[r].pc = "created"
    /\ REDIS_AVAILABLE
    /\ queue' = Append(queue, Call(req[r].job_id, Strip(req[r].query),
                                   req[r].file_path))
    /\ enqueued' = enqueued \cup { req[r].job_id }
    /\ req' = [ req EXCEPT ![r].pc = "done",
                           ![r].response = QueuedResponse(req[r].job_id,
                                                          req[r].query) ]
    /\ UNCHANGED << REDIS_AVAILABLE, db, issued, now, delivered, redeliveries,
                    wrk, executions, writes, polled, raised, outcome >>

\* A handler that gives up the queue once an enqueue has failed.
AnalyzeEnqueueFailsDegrades(r) ==
    /\ req[r].pc = "created"
    /\ REDIS_AVAILABLE
    /\ REDIS_AVAILABLE' = FALSE
    /\ \E e \in Errors :
         req' = [ req EXCEPT ![r].pc = "done",
                             ![r].response = HTTPException(QueuingDetail(e)) ]
    /\ UNCHANGED << db, issued, now, queue, delivered, redeliveries, wrk,
                    executions, enqueued, writes, polled, raised, outcome >>

\* Line 102 raises (the broker is unreachable): the outer except of lines
\* 135-136 answers 500; nothing is written to the row.
AnalyzeEnqueueFails(r) ==
    /\ req[r].pc = "created"
    /\ REDIS_AVAILABLE
    /\ \E e \in Errors :
         req' = [ req EXCEPT ![r].pc = "done",
                             ![r].response = HTTPException(QueuingDetail(e)) ]
    /\ UNCHANGED << REDIS_AVAILABLE, db, issued, now, queue, delivered,
                    redeliveries, wrk, executions, enqueued, writes,
                    polled, raised, outcome >>

\* Lines 109-112: without Redis the handler calls run_crew itself.
AnalyzeRunCrew(r) ==
    /\ req[r].pc = "created"
    /\ ~REDIS_AVAILABLE
    /\ Invoke(req[r].job_id)
    /\ req' = [ req EXCEPT ![r].pc = "running" ]
    /\ UNCHANGED << REDIS_AVAILABLE, db, issued, now, queue, delivered,
                    redeliveries, wrk, enqueued, writes, polled, raised,
                    outcome >>

\* The except of lines 126-133 followed by the outer except of lines 135-136,
\* which catches the HTTPException raised at line 133 and raises its own.
AnalyzeExcept(r, e) ==
    LET job_id == req[r].job_id
    IN  /\ IF job_id \in DOMAIN db
           THEN /\ Flush(job_id, db[job_id], ErrorResult(e), "failed")
                /\ req' = [ req EXCEPT ![r].pc = "done",
                              ![r].response = HTTPException(QueuingDetail(
                                  HTTPExceptionStr(ProcessingDetail(e)))) ]
           ELSE \* session.get returned None: job.result raises in the handler
                /\ req' = [ req EXCEPT ![r].pc = "done",
                              ![r].response = HTTPException(QueuingDetail(
                                           AttributeError)) ]
                /\ UNCHANGED << db, now, writes >>

\* Lines 112-125: run_crew returns; the row is updated and the handler answers.
AnalyzeCompleted(r) ==
    /\ req[r].pc = "running"
    /\ \E result \in Texts :
         LET job_id == req[r].job_id
         IN  /\ IF job_id \in DOMAIN db
                THEN /\ Flush(job_id, db[job_id], result, "completed")
                     /\ req' = [ req EXCEPT ![r].pc = "done",
                                   ![r].response = CompletedResponse(job_id,
                                                       req[r].query, result) ]
                ELSE \* session.get returned None: line 115 raises
                     AnalyzeExcept(r, AttributeError)
             /\ outcome' = [ outcome EXCEPT ![job_id] = Returned(result) ]
    /\ UNCHANGED << REDIS_AVAILABLE, issued, queue, delivered, redeliveries,
                    wrk, executions, enqueued, polled, raised >>

\* Lines 112, 126-136: run_crew raises.
AnalyzeFailed(r) ==
    /\ req[r].pc = "running"
    /\ \E e \in Errors :
         /\ AnalyzeExcept(r, e)
         /\ raised' = [ raised EXCEPT ![req[r].job_id] = Some(e) ]
         /\ outcome' = [ outcome EXCEPT ![req[r].job_id] = Raised(e) ]
    /\ UNCHANGED << REDIS_AVAILABLE, issued, queue, delivered, redeliveries,
                    wrk, executions, enqueued, polled >>

\* Line 112 never returns: kickoff has no timeout.
AnalyzeHangs(r) ==
    /\ req[r].pc = "running"
    /\ req' = [ req EXCEPT ![r].pc = "hung" ]
    /\ UNCHANGED << REDIS_AVAILABLE, db, issued, now, queue, delivered,
                    redeliveries, wrk, executions, enqueued, writes,
                    polled, raised, outcome >>

\* --------------------------------------------- process_job (worker.py 12-28)

\* A worker that creates the row it does not find.
ProcessJobSkipUpserts(w) ==
    /\ wrk[w].pc = "idle"
    /\ queue # <<>>
    /\ Head(queue).job_id \notin DOMAIN db
    /\ queue' = Tail(queue)
    /\ delivered' = delivered \cup { Head(queue) }
    /\ Insert(Head(queue).job_id,
              Analysis(Head(queue).query, Head(queue).file_path, "pending"))
    /\ now' = now + 1
    /\ UNCHANGED << REDIS_AVAILABLE, issued, redeliveries, req, wrk,
                    executions, enqueued, writes, polled, raised, outcome >>

\* Lines 14-18: the worker takes the next call; no row has its job_id, so the
\* function returns without running anything.
ProcessJobSkip(w) ==
    /\ wrk[w].pc = "idle"
    /\ queue # <<>>
    /\ Head(queue).job_id \notin DOMAIN db
    /\ queue' = Tail(queue)
    /\ delivered' = delivered \cup { Head(queue) }
    /\ UNCHANGED << REDIS_AVAILABLE, db, issued, now, redeliveries, req, wrk,
                    executions, enqueued, writes, polled, raised, outcome >>

\* Lines 14-20: the worker takes the next call, loads the row and enters
\* run_crew with the arguments of the call.
ProcessJobStart(w) ==
    /\ wrk[w].pc = "idle"
    /\ queue # <<>>
    /\ Head(queue).job_id \in DOMAIN db
    /\ queue' = Tail(queue)
    /\ delivered' = delivered \cup { Head(queue) }
    /\ wrk' = [ wrk EXCEPT ![w] = [ pc |-> "running", call |-> Head(queue),
                                    record |-> db[Head(queue).job_id] ] ]
    /\ Invoke(Head(queue).job_id)
    /\ UNCHANGED << REDIS_AVAILABLE, db, issued, now, redeliveries, req,
                    enqueued, writes, polled, raised, outcome >>

\* Lines 20-22, 26-28: run_crew returns; result and status are set on the
\* loaded record and committed.
ProcessJobCompleted(w) ==
    /\ wrk[w].pc = "running"
    /\ \E result \in Texts :
         /\ Flush(wrk[w].call.job_id, wrk[w].record, result, "completed")
         /\ outcome' = [ outcome EXCEPT ![wrk[w].call.job_id] =
                                           Returned(result) ]
    /\ wrk' = [ wrk EXCEPT ![w] = [ pc |-> "idle", call |-> NoCall,
                                    record |-> NoRecord ] ]
    /\ UNCHANGED << REDIS_AVAILABLE, issued, queue, delivered, redeliveries,
                    req, executions, enqueued, polled, raised >>

\* Lines 20, 23-28: run_crew raises; the error text and failed are committed
\* and the function returns normally.
ProcessJobFailed(w) ==
    /\ wrk[w].pc = "running"
    /\ \E e \in Errors :
         /\ Flush(wrk[w].call.job_id, wrk[w].record, ErrorResult(e), "failed")
         /\ raised' = [ raised EXCEPT ![wrk[w].call.job_id] = Some(e) ]
         /\ outcome' = [ outcome EXCEPT ![wrk[w].call.job_id] = Raised(e) ]
    /\ wrk' = [ wrk EXCEPT ![w] = [ pc |-> "idle", call |-> NoCall,
                                    record |-> NoRecord ] ]
    /\ UNCHANGED << REDIS_AVAILABLE, issued, queue, delivered, redeliveries,
                    req, executions, enqueued, polled >>

\* Line 20 never returns: kickoff has no timeout.
ProcessJobHangs(w) ==
    /\ wrk[w].pc = "running"
    /\ wrk' = [ wrk EXCEPT ![w].pc = "hung" ]
    /\ UNCHANGED << REDIS_AVAILABLE, db, issued, now, queue, delivered,
                    redeliveries, req, executions, enqueued, writes,
                    polled, raised, outcome >>

\* The queue presents again a call that a worker has already taken
\* (at-least-once delivery: a requeue of the RQ job).
Redeliver ==
    /\ redeliveries < MaxRedeliver
    /\ \E call \in delivered : queue' = Append(queue, call)
    /\ redeliveries' = redeliveries + 1
    /\ UNCHANGED << REDIS_AVAILABLE, db, issued, now, delivered, req, wrk,
                    executions, enqueued, writes, polled, raised, outcome >>

\* ------------------------------------ GET /status/{job_id} (main.py 56-64)

\* A handler that answers an unknown id with a default object.
StatusResponseDefault(table, job_id) ==
    IF job_id \in DOMAIN table
    THEN [ code |-> 200, job_id |-> job_id, status |-> table[job_id].status,
           result |-> table[job_id].result ]
    ELSE [ code |-> 200, job_id |-> job_id, status |-> "pending",
           result |-> NULL ]

\* What the handler answers for job_id when the table holds rows `table`.
\* HTTPException(status_code=404) when session.get finds no row.
StatusResponse(table, job_id) ==
    IF job_id \in DOMAIN table
    THEN [ code |-> 200, job_id |-> job_id, status |-> table[job_id].status,
           result |-> table[job_id].result ]
    ELSE [ code |-> 404, job_id |-> NoJob, status |-> "", result |-> NULL ]

job_status ==
    /\ \E job_id \in JobIds :
         polled' = [ asked |-> job_id, answer |-> StatusResponse(db, job_id) ]
    /\ UNCHANGED << REDIS_AVAILABLE, db, issued, now, queue, delivered,
                    redeliveries, req, wrk, executions, enqueued, writes,
                    raised, outcome >>

\* ------------------------------------------------------------ specification
Analyze(r) ==
    \/ AnalyzeIntakeFails(r)
    \/ AnalyzeCreate(r)
    \/ AnalyzeEnqueue(r)
    \/ AnalyzeEnqueueFails(r)
    \/ AnalyzeRunCrew(r)
    \/ AnalyzeCompleted(r)
    \/ AnalyzeFailed(r)
    \/ AnalyzeHangs(r)

ProcessJob(w) ==
    \/ ProcessJobSkip(w)
    \/ ProcessJobStart(w)
    \/ ProcessJobCompleted(w)
    \/ ProcessJobFailed(w)
    \/ ProcessJobHangs(w)

Next ==
    \/ \E r \in Requests : Analyze(r)
    \/ \E w \in Workers : ProcessJob(w)
    \/ Redeliver
    \/ job_status

Spec == Init /\ [][Next]_vars

\* Every request that has been received is served and a worker with a call to
\* take takes it; nothing forces run_crew to return (the Hangs steps).
FairSpec ==
    /\ Spec
    /\ \A r \in Requests : WF_vars(Analyze(r))
    /\ \A w \in Workers : WF_vars(ProcessJob(w))

\* ------------------------------------------------------------------ claims

\* s contains sub as a contiguous part.
Contains(s, sub) ==
    \E i \in 0..(Len(s) - Len(sub)) : SubSeq(s, i + 1, i + Len(sub)) = sub

\* No process_job execution is at work on the job.
NotInFlight(id) == \A w \in Workers : wrk[w].call.job_id # id

\* C1: in every reachable state every row has result NULL while its status is
\* pending or queued and a result while its status is completed or failed;
\* no state shows one of status and result written without the other.
C1_ResultIffTerminal ==
    \A id \in DOMAIN db :
        /\ db[id].status \in { "pending", "queued" } \cup Terminal
        /\ db[id].status \in { "pending", "queued" } <=> db[id].result = NULL

\* A row has been written twice by workers while another row is still pending.
C1_Witness ==
    \E id, other \in DOMAIN db :
        /\ writes[id] >= 2
        /\ db[id].status \in Terminal
        /\ db[other].status = "pending"

\* C2: a process_job run that finds the row already completed or failed does
\* not enter run_crew and leaves the row (status, result, updated_at) as it is.
C2_RedeliveryIsNoOp ==
    [][ \A w \in Workers :
          /\ ( /\ wrk[w].pc = "idle"
               /\ wrk'[w].pc = "running"
               /\ wrk'[w].record.status \in Terminal )
             => executions' = executions
          /\ ( /\ wrk[w].pc = "running"
               /\ wrk[w].record.status \in Terminal
               /\ wrk'[w].pc = "idle" )
             => db' = db ]_vars

\* C3: when an execution of process_job read the row while it was pending and
\* the row has become terminal since (another execution committed first), its
\* commit is rejected: status and result of the row stay as first written.
C3_TerminalWrittenOnce ==
    [][ \A w \in Workers :
          LET id == wrk[w].call.job_id
          IN  ( /\ wrk[w].pc = "running"
                /\ wrk[w].record.status = "pending"
                /\ db[id].status \in Terminal
                /\ wrk'[w].pc = "idle" )
              => /\ db'[id].status = db[id].status
                 /\ db'[id].result = db[id].result ]_vars

\* C4: once the handler has answered "queued" and before a worker has run the
\* job, the row, and so a status query, shows status queued.
C4_QueuedIsStored ==
    \A r \in Requests :
        ( /\ REDIS_AVAILABLE
          /\ req[r].response.status = "queued"
          /\ executions[req[r].job_id] = 0 )
        => /\ db[req[r].job_id].status = "queued"
           /\ StatusResponse(db, req[r].job_id).status = "queued"

\* C5: when enqueue raised after the row was created, the handler has marked
\* the row failed with a description; the row is not left pending.
C5_DispatchFailureIsRecorded ==
    \A r \in Requests :
        ( /\ REDIS_AVAILABLE
          /\ req[r].pc = "done"
          /\ req[r].job_id # NoJob
          /\ req[r].job_id \notin enqueued )
        => /\ db[req[r].job_id].status = "failed"
           /\ db[req[r].job_id].result # NULL

\* C6: every job that was dispatched (run inline, or enqueued) eventually has
\* a terminal status, also when run_crew never returns.
C6_EventuallyTerminal ==
    \A id \in JobIds :
        ( /\ id \in DOMAIN db
          /\ ~REDIS_AVAILABLE \/ id \in enqueued )
        ~> ( id \in DOMAIN db /\ db[id].status \in Terminal )

\* C7: when run_crew raised for a job and no execution of it is at work, the
\* row is failed with a non-empty result containing the description, and the
\* request that submitted it did not end with the exception (a 500).
C7_FailureIsContained ==
    \A id \in DOMAIN db :
        ( raised[id] # NULL /\ NotInFlight(id) )
        => /\ db[id].status = "failed"
           /\ db[id].result # NULL
           /\ db[id].result[1] # <<>>
           /\ Contains(db[id].result[1], raised[id][1])
           /\ \A r \in Requests :
                req[r].job_id = id => req[r].response.code # 500

\* C8: a request whose row was created does not end as a request failure, and
\* a request that failed after its row was created left an error in the row.
C8_OnlyIntakeErrorsFailTheRequest ==
    \A r \in Requests :
        ( req[r].pc = "done" /\ req[r].job_id # NoJob )
        => /\ req[r].response.code # 500
           /\ req[r].response.code = 500
                => /\ db[req[r].job_id].status = "failed"
                   /\ db[req[r].job_id].result # NULL

\* C9: run_crew is entered, and a job id is enqueued, only for an id whose row
\* is committed; and the row is committed as pending with NULL result at a
\* moment when neither has happened yet for its id.
C9_RecordBeforeExecution ==
    /\ [](\A id \in JobIds :
            (executions[id] > 0 \/ id \in enqueued) => id \in DOMAIN db)
    /\ [](\A r \in Requests :
            req[r].pc \in { "running", "hung" } => req[r].job_id \in DOMAIN db)
    /\ [][ \A id \in JobIds :
             (id \notin DOMAIN db /\ id \in DOMAIN db')
             => /\ db'[id].status = "pending"
                /\ db'[id].result = NULL
                /\ executions'[id] = 0
                /\ id \notin enqueued' ]_vars

\* A worker has skipped the call whose id has no row and has entered run_crew
\* for an enqueued job.
C9_Witness ==
    /\ \E call \in delivered : call.job_id = StaleId
    /\ \E id \in enqueued : executions[id] > 0

AllowedTransitions ==
    { << "pending", "queued" >>, << "pending", "completed" >>,
      << "pending", "failed" >>, << "queued", "completed" >>,
      << "queued", "failed" >> }

\* C11: no step takes a row's status from completed or failed back to pending
\* or queued, nor from queued to pending; a status changes only along
\* pending->queued, pending->completed/failed and queued->completed/failed.
C11_StatusOnlyMovesForward ==
    [][ \A id \in DOMAIN db :
          /\ id \in DOMAIN db'
          /\ db'[id].status # db[id].status
               => << db[id].status, db'[id].status >> \in AllowedTransitions
      ]_vars

\* C12: in Queued mode, once run_crew has ended for a job, the row shows the
\* latest outcome: completed with the returned text, or failed; and a status
\* query answers exactly that status and result.
C12_RowShowsExecutorOutcome ==
    REDIS_AVAILABLE =>
        \A id \in DOMAIN db :
            /\ outcome[id].kind = "returned"
                 => /\ db[id].status = "completed"
                    /\ db[id].result = Some(outcome[id].text)
                    /\ StatusResponse(db, id).status = "completed"
                    /\ StatusResponse(db, id).result = Some(outcome[id].text)
            /\ outcome[id].kind = "raised"
                 => /\ db[id].status = "failed"
                    /\ StatusResponse(db, id).status = "failed"

\* C13: a status query for an id without a row is answered 404 with no job
\* fields, a query for an id with a row is answered with that row, and no
\* status query changes the table.
C13_UnknownIdIsNotFound ==
    [][ polled' # polled
          => /\ db' = db
             /\ polled'.asked \notin DOMAIN db
                  => /\ polled'.answer.code = 404
                     /\ polled'.answer.job_id = NoJob
                     /\ polled'.answer.status = ""
                     /\ polled'.answer.result = NULL
             /\ polled'.asked \in DOMAIN db
                  => /\ polled'.answer.code = 200
                     /\ polled'.answer.job_id = polled'.asked
                     /\ polled'.answer.status = db[polled'.asked].status
                     /\ polled'.answer.result = db[polled'.asked].result
      ]_vars

\* An id without a row was asked for while the table held a row.
C13_Witness ==
    /\ polled.answer.code = 404
    /\ polled.asked \notin DOMAIN db
    /\ DOMAIN db # {}

\* C14: a worker that takes a call whose id has no row runs nothing, creates
\* no row and stays free for the next call; a worker whose run_crew ended,
\* by raising too, leaves the queued calls and the other workers untouched;
\* and a free worker can always take the next queued call.
C14_MissingRowIsSkipped ==
    /\ [](\A id \in JobIds : id \notin DOMAIN db => executions[id] = 0)
    /\ [](\A w \in Workers : wrk[w].pc \in { "idle", "running", "hung" })
    /\ [][ ( /\ queue # <<>>
             /\ queue' = Tail(queue)
             /\ Head(queue).job_id \notin DOMAIN db )
           => /\ db' = db
              /\ executions' = executions
              /\ outcome' = outcome
              /\ wrk' = wrk ]_vars
    /\ [][ \A w \in Workers :
             (wrk[w].pc = "running" /\ wrk'[w].pc = "idle")
             => /\ queue' = queue
                /\ \A v \in Workers \ { w } : wrk'[v] = wrk[v] ]_vars
    /\ [](\A w \in Workers :
            (wrk[w].pc = "idle" /\ queue # <<>>) => ENABLED ProcessJob(w))

\* The call without a row was skipped, a job failed in a worker, and a job
\* enqueued after it was completed later.
C14_Witness ==
    /\ \E call \in delivered : call.job_id = StaleId
    /\ \E id, later \in DOMAIN db :
         /\ id < later
         /\ db[id].status = "failed"
         /\ db[later].status = "completed"
         /\ db[later].updated_at > db[id].updated_at

\* C15: REDIS_AVAILABLE never changes; with it every request is dispatched
\* through the queue, also after an enqueue has failed, and without it none.
C15_ModeIsFixed ==
    /\ [][ REDIS_AVAILABLE' = REDIS_AVAILABLE ]_vars
    /\ [](\A r \in Requests :
            /\ REDIS_AVAILABLE
                 => /\ req[r].pc \notin { "running", "hung" }
                    /\ req[r].response.status # "completed"
            /\ ~REDIS_AVAILABLE
                 => /\ req[r].response.status # "queued"
                    /\ req[r].job_id \notin enqueued)

\* An enqueue failed and the request after it was still enqueued.
C15_Witness ==
    /\ REDIS_AVAILABLE
    /\ \E r, s \in Requests :
         /\ r < s
         /\ req[r].job_id # NoJob
         /\ req[r].response.code = 500
         /\ req[s].response.status = "queued"

\* The requests that passed intake.
Created == { r \in Requests : req[r].job_id # NoJob }

\* C16: every request that passed intake has one row of its own under an id
\* no other request has; a row never disappears and its query, file_path and
\* created_at never change; and a step that changes a row is the commit of a
\* worker or handler working on that very id.
C16_OneRowPerSubmission ==
    /\ [](/\ DOMAIN db = { req[r].job_id : r \in Created }
          /\ Cardinality(DOMAIN db) = Cardinality(Created)
          /\ Cardinality(DOMAIN db) = issued)
    /\ [][ \A id \in DOMAIN db :
             /\ id \in DOMAIN db'
             /\ db'[id].query = db[id].query
             /\ db'[id].file_path = db[id].file_path
             /\ db'[id].created_at = db[id].created_at
             /\ db'[id] # db[id]
                  => \/ \E w \in Workers : /\ wrk[w].pc = "running"
                                           /\ wrk[w].call.job_id = id
                                           /\ wrk'[w].pc = "idle"
                     \/ \E r \in Requests : /\ req[r].pc = "running"
                                            /\ req[r].job_id = id
                                            /\ req'[r].pc = "done" ]_vars

\* Two requests have their rows, with different queries, and the first row
\* has been rewritten by workers.
C16_Witness ==
    /\ Cardinality(DOMAIN db) = 2
    /\ \E id, other \in DOMAIN db :
         /\ db[id].query # db[other].query
         /\ writes[id] >= 2
         /\ db[other].status = "pending"

\* The ids of the calls that are queued, were delivered, or are being run.
CallIds ==
    { queue[i].job_id : i \in DOMAIN queue }
        \cup { call.job_id : call \in delivered }
        \cup { wrk[w].call.job_id : w \in Workers }

\* C17: an enqueued job is never run, nor its row written, by the handler; a
\* job the handler runs is never enqueued; and while the queue has not
\* re-presented any call, run_crew has been entered at most once per job.
C17_OnePathPerJob ==
    /\ [](\A r \in Requests :
            /\ req[r].job_id \in enqueued
                 => /\ req[r].pc = "done"
                    /\ req[r].response.status = "queued"
            /\ req[r].pc \in { "running", "hung" }
                 \/ req[r].response.status = "completed"
                 => /\ req[r].job_id \notin enqueued
                    /\ req[r].job_id \notin CallIds)
    /\ [](redeliveries = 0 => \A id \in JobIds : executions[id] <= 1)
    /\ [][ \A id \in DOMAIN db :
             (id \in enqueued /\ db'[id] # db[id])
             => \E w \in Workers : /\ wrk[w].pc = "running"
                                   /\ wrk[w].call.job_id = id
                                   /\ wrk'[w].pc = "idle" ]_vars

\* Without redelivery two enqueued jobs have each been run once by a worker.
C17_Witness ==
    /\ redeliveries = 0
    /\ Cardinality(enqueued) = 2
    /\ \A id \in enqueued : executions[id] = 1 /\ db[id].status \in Terminal

\* C18: the query and the file path of every call for a job that is queued
\* or being run by a worker equal the query and file_path of the job's row.
C18_CallMatchesRow ==
    /\ \A i \in DOMAIN queue :
         queue[i].job_id \in DOMAIN db
           => /\ queue[i].query = db[queue[i].job_id].query
              /\ queue[i].file_path = db[queue[i].job_id].file_path
    /\ \A w \in Workers :
         wrk[w].pc # "idle"
           => /\ wrk[w].call.job_id \in DOMAIN db
              /\ wrk[w].call.query = db[wrk[w].call.job_id].query
              /\ wrk[w].call.file_path = db[wrk[w].call.job_id].file_path

\* A worker runs a job whose posted query had blanks around it, and another
\* whose query was replaced by the default one.
C18_Witness ==
    \E w, v \in Workers :
        /\ wrk[w].pc = "running"
        /\ wrk[w].call.query = <<"q">>
        /\ \E r \in Requests : /\ req[r].job_id = wrk[w].call.job_id
                               /\ req[r].query # wrk[w].call.query
        /\ wrk[v].pc = "running"
        /\ wrk[v].call.query = DEFAULT_QUERY

====
